---- MODULE Spec2Model ----
(***************************************************************************)
(* Order history plugin: HistoryView.get and the generators, formatters    *)
(* and exporters it dispatches to (order_history/views.py).                *)
(*                                                                         *)
(* One request is one run of HistoryView.get on its own view instance.     *)
(* The aggregation loop of generate_build_order_history is modelled one    *)
(* iteration per step; format_response and export_data are pure operators  *)
(* applied in one step.  Python dicts are modelled with their insertion    *)
(* order (keys) and their mapping (val).                                   *)
(*                                                                         *)
(* helpers.construct_date_range, helpers.convert_date and the serializers  *)
(* are not part of views.py; they are modelled from the specification      *)
(* (sections 4.1, 6 and 7) on a miniature calendar: a date is a day        *)
(* number, a period is a fixed number of days, and a bucket key is the     *)
(* index of the period instance (the fixed-width key strings of the        *)
(* program sort the way these indices do).                                 *)
(***************************************************************************)
EXTENDS Integers, Sequences, FiniteSets, TLC

\* ---------------------------------------------------------------- bounds
MaxDay == 2
MaxBuilds == 2
ConcBuilds == 1

\* ------------------------------------------------------------- constants
\* Python's None, for a date, for a part and for a string-valued field.
NoDate == -1
NoPart == 0
None == "None"

Requests == {1, 2}
Days == 0..MaxDay
Parts == {1, 2}
Quantities == {1, 2}
Periods == {"D", "W", "M", "Y"}
ExportFormats == {"csv"}

\* The keys of the generators dispatch table of get.
Generators == {"build", "purchase", "sales", "return"}
OrderTypes == Generators \cup {None}

\* ----------------------------------------------------------- Python dict
EmptyDict == [keys |-> <<>>, val |-> <<>>]

DictHas(d, k) == k \in DOMAIN d.val

\* d[k] = v: a new key is appended to the insertion order.
DictSet(d, k, v) ==
    IF DictHas(d, k)
    THEN [d EXCEPT !.val[k] = v]
    ELSE [keys |-> Append(d.keys, k),
          val  |-> [x \in (DOMAIN d.val) \cup {k} |-> IF x = k THEN v ELSE d.val[x]]]

\* d.get(k, default)
DictGet(d, k, default) == IF DictHas(d, k) THEN d.val[k] ELSE default

\* ------------------------------------------------- database (build.models)
\* A part row, as the views read it: pk, name, IPN.
Part(pk) == [pk |-> pk, name |-> <<"name", pk>>, IPN |-> <<"ipn", pk>>]

\* part.get_descendants(include_self=True) on a part tree that is a chain:
\* every part is the parent of the next one.
get_descendants(pk) == {q \in Parts : q >= pk}

\* The rows the Build table may hold: completed builds of every part,
\* quantity and day, and one row for each way a row is filtered out.
BuildSpace ==
    {[part |-> p, quantity |-> q, completion_date |-> d,
      status |-> "COMPLETE", completed |-> q] :
        p \in Parts, q \in Quantities, d \in Days}
    \cup {[part |-> 1, quantity |-> 1, completion_date |-> 0,
           status |-> "PRODUCTION", completed |-> 1],
          [part |-> 1, quantity |-> 1, completion_date |-> 0,
           status |-> "COMPLETE", completed |-> 0],
          [part |-> 1, quantity |-> 1, completion_date |-> NoDate,
           status |-> "COMPLETE", completed |-> 1]}

\* -------------------------------------------------- helpers (spec 4.1, 7)
PeriodDays(period) ==
    CASE period = "D" -> 1
      [] period = "W" -> 2
      [] period = "M" -> 3
      [] period = "Y" -> 4

\* helpers.convert_date: the key of the period instance holding the date.
convert_date(date, period) == date \div PeriodDays(period)

\* helpers.construct_date_range: the keys of the period instances that
\* intersect [start, end], ascending; InvalidRangeError when start > end.
construct_date_range(start_date, end_date, period) ==
    IF start_date > end_date
    THEN [raised |-> TRUE, value |-> <<>>]
    ELSE LET first == convert_date(start_date, period)
             last  == convert_date(end_date, period)
         IN [raised |-> FALSE,
             value  |-> [i \in 1..(last - first + 1) |-> first + i - 1]]

\* ------------------------------------------------------- request and self
\* serializer.validated_data: the typed parameters of a request.
RequestSpace ==
    [start_date : Days, end_date : Days, period : Periods \cup {None},
     order_type : OrderTypes, part : Parts \cup {NoPart},
     export : ExportFormats \cup {None}]

NoRequest ==
    [start_date |-> NoDate, end_date |-> NoDate, period |-> None,
     order_type |-> None, part |-> NoPart, export |-> None]

\* The attributes of a view instance before get has assigned them.
NoSelf ==
    [start_date |-> NoDate, end_date |-> NoDate, period |-> None,
     order_type |-> None, part |-> NoPart, export_format |-> None,
     date_range |-> <<>>]

\* The assignments of get: data.get(...) of every parameter, 'M' when the
\* period is not given.
AssignSelf(data) ==
    [start_date |-> data.start_date, end_date |-> data.end_date,
     period |-> IF data.period = None THEN "M" ELSE data.period,
     order_type |-> data.order_type, part |-> data.part,
     export_format |-> data.export, date_range |-> <<>>]

\* Variant: one view instance serves every request.
SharedSelf(r) == 1

\* The view instance a request runs on: the framework makes one per request.
SelfOf(r) == r

\* ---------------------------------------------------------------- results
NoResult ==
    [kind |-> "none", data |-> <<>>, headers |-> <<>>, rows |-> <<>>, filename |-> <<>>]

Response(data) ==
    [kind |-> "Response", data |-> data, headers |-> <<>>, rows |-> <<>>,
     filename |-> <<>>]

DownloadFile(headers, rows, filename) ==
    [kind |-> "DownloadFile", data |-> <<>>, headers |-> headers, rows |-> rows,
     filename |-> filename]

\* A bare Python list, which is no response object.
BareList == [NoResult EXCEPT !.kind = "list"]

Raised(error) == [NoResult EXCEPT !.kind = error]

\* Variant: get catches the exception and goes on.
Swallows(dr) == FALSE

\* An exception of construct_date_range leaves get: nothing catches it.
Propagates(dr) == dr.raised

\* Variant: an unknown order type is an error.
DefaultRaises == Raised("ValueError")

\* get, no valid order type provided.
DefaultResult == Response(<<>>)

\* generate_purchase_order_history, generate_sales_order_history,
\* generate_return_order_history.
StubResult == BareList

\* ------------------------------------------ generate_build_order_history
\* The query: complete builds with completed > 0 and a completion date in
\* [start_date, end_date], of the part and its descendants when one is given.
InQuery(b, s) ==
    /\ (s.part # NoPart => b.part \in get_descendants(s.part))
    /\ b.status = "COMPLETE"
    /\ b.completed > 0
    /\ b.completion_date # NoDate
    /\ b.completion_date >= s.start_date
    /\ b.completion_date <= s.end_date

\* The rows of a table the query yields.
QueryRows(table, s) == {b \in table : InQuery(b, s)}

\* Variant: the part is not recorded.
TouchPartSkip(parts, pk) == parts

\* if part.pk not in parts: parts[part.pk] = part
TouchPart(parts, pk) ==
    IF ~DictHas(parts, pk) THEN DictSet(parts, pk, Part(pk)) ELSE parts

\* if part.pk not in history_items: history_items[part.pk] = {}
TouchHistory(history_items, pk) ==
    IF ~DictHas(history_items, pk)
    THEN DictSet(history_items, pk, EmptyDict)
    ELSE history_items

\* Variant: entries[date_key] = quantity.
AccumulateOverwrite(entries, date_key, quantity) ==
    DictSet(entries, date_key, quantity)

\* Variant: only the first row of a bucket counts.
AccumulateFirstWins(entries, date_key, quantity) ==
    IF ~DictHas(entries, date_key) THEN DictSet(entries, date_key, quantity) ELSE entries

\* if date_key not in entries: entries[date_key] = 0
\* entries[date_key] += quantity
Accumulate(entries, date_key, quantity) ==
    LET touched == IF ~DictHas(entries, date_key)
                   THEN DictSet(entries, date_key, 0)
                   ELSE entries
    IN DictSet(touched, date_key, touched.val[date_key] + quantity)

\* One iteration of the loop over the builds.
LoopBody(st, build, period) ==
    LET pk       == build.part
        parts1   == TouchPart(st.parts, pk)
        items1   == TouchHistory(st.history_items, pk)
        date_key == convert_date(build.completion_date, period)
        entries  == Accumulate(items1.val[pk], date_key, build.quantity)
    IN [parts |-> parts1, history_items |-> DictSet(items1, pk, entries)]

EmptyLocals == [parts |-> EmptyDict, history_items |-> EmptyDict]

\* The loop over a whole list of builds.
RECURSIVE LoopOver(_, _, _)
LoopOver(st, builds, period) ==
    IF builds = <<>> THEN st
    ELSE LoopOver(LoopBody(st, Head(builds), period), Tail(builds), period)

\* --------------------------------------------------------- format_response
\* sorted(history, key=lambda x: x['date']): a stable sort.
RECURSIVE Insert(_, _)
Insert(sorted, x) ==
    IF sorted = <<>> THEN <<x>>
    ELSE IF x.date < Head(sorted).date THEN <<x>> \o sorted
    ELSE <<Head(sorted)>> \o Insert(Tail(sorted), x)

RECURSIVE SortedByDate(_)
SortedByDate(history) ==
    IF history = <<>> THEN <<>>
    ELSE Insert(SortedByDate(SubSeq(history, 1, Len(history) - 1)),
                history[Len(history)])

\* Variant: the missing keys are not filled in.
HistoryNoFill(entries, date_range) ==
    SortedByDate([i \in 1..Len(entries.keys) |->
                    [date |-> entries.keys[i], quantity |-> entries.val[entries.keys[i]]]])

\* The entries of a part, then a zero entry for every key of the date
\* range that is missing, then the sort.
History(entries, date_range) ==
    LET items == [i \in 1..Len(entries.keys) |->
                    [date |-> entries.keys[i], quantity |-> entries.val[entries.keys[i]]]]
        Missing(k) == ~DictHas(entries, k)
        missing == SelectSeq(date_range, Missing)
        zeros == [i \in 1..Len(missing) |-> [date |-> missing[i], quantity |-> 0]]
    IN SortedByDate(items \o zeros)

\* serializers.OrderHistoryResponseSerializer(response, many=True).data
OrderHistoryResponseSerializer(response) ==
    [i \in 1..Len(response) |->
        [part |-> [pk |-> response[i].part.pk, name |-> response[i].part.name,
                   IPN |-> response[i].part.IPN],
         history |-> response[i].history]]

RECURSIVE Reverse(_)
Reverse(s) == IF s = <<>> THEN <<>> ELSE Append(Reverse(Tail(s)), Head(s))

\* Variant: the parts are visited last first.
ItemsReversed(history_items) == Reverse(history_items.keys)

\* The order the loops of format_response and export_data visit the parts:
\* history_items.items().
Items(history_items) == history_items.keys

\* The structured response; part_dict[part_id] raises KeyError.
StructuredResponse(part_dict, history_items, date_range) ==
    LET ids == Items(history_items)
    IN IF \E i \in 1..Len(ids) : ~DictHas(part_dict, ids[i])
       THEN Raised("KeyError")
       ELSE Response(OrderHistoryResponseSerializer(
                [i \in 1..Len(ids) |->
                    [part |-> part_dict.val[ids[i]],
                     history |-> History(history_items.val[ids[i]], date_range)]]))

\* ------------------------------------------------------------- export_data
\* Variant: a key with no entry gets no column.
QuantitiesPresentOnly(entries, date_range) ==
    LET Present(k) == DictHas(entries, k)
        present == SelectSeq(date_range, Present)
    IN [i \in 1..Len(present) |-> entries.val[present[i]]]

\* quantities = [entries.get(key, 0) for key in self.date_range]
ExportQuantities(entries, date_range) ==
    [i \in 1..Len(date_range) |-> DictGet(entries, date_range[i], 0)]

ExportHeaders(date_range) == <<"Part ID", "Part Name", "IPN">> \o date_range

export_data(part_dict, history_items, date_range, export_format) ==
    LET ids == Items(history_items)
    IN IF \E i \in 1..Len(ids) : ~DictHas(part_dict, ids[i])
       THEN Raised("KeyError")
       ELSE DownloadFile(
                ExportHeaders(date_range),
                [i \in 1..Len(ids) |->
                    LET part == part_dict.val[ids[i]]
                    IN <<ids[i], part.name, part.IPN>>
                       \o ExportQuantities(history_items.val[ids[i]], date_range)],
                <<"order_history", export_format>>)

format_response(part_dict, history_items, s) ==
    IF s.export_format # None
    THEN export_data(part_dict, history_items, s.date_range, s.export_format)
    ELSE StructuredResponse(part_dict, history_items, s.date_range)

\* ------------------------------------------------------------------ state
VARIABLES
    request,   \* request[r]: the validated parameters of request r
    self,      \* self[i]: the attributes of view instance i
    pc,        \* pc[r]: where request r is in get
    builds,    \* builds[r]: the rows r's query has yielded, in iteration order
    locals,    \* locals[r]: parts and history_items of r's generator call
    result     \* result[r]: what get returned or raised

vars == <<request, self, pc, builds, locals, result>>

InitCommon ==
    /\ self = [i \in Requests |-> NoSelf]
    /\ builds = [r \in Requests |-> <<>>]
    /\ locals = [r \in Requests |-> EmptyLocals]
    /\ result = [r \in Requests |-> NoResult]

\* One request.
Init ==
    /\ \E q \in RequestSpace : request = [r \in Requests |-> IF r = 1 THEN q ELSE NoRequest]
    /\ pc = [r \in Requests |-> IF r = 1 THEN "get" ELSE "idle"]
    /\ InitCommon

\* get, lines 26-36: the parameters are stored on the view instance.
Get(r) ==
    /\ pc[r] = "get"
    /\ self' = [self EXCEPT ![SelfOf(r)] = AssignSelf(request[r])]
    /\ pc' = [pc EXCEPT ![r] = "date_range"]
    /\ UNCHANGED <<request, builds, locals, result>>

\* get, lines 38-41.
ConstructDateRange(r) ==
    /\ pc[r] = "date_range"
    /\ LET s  == self[SelfOf(r)]
           dr == construct_date_range(s.start_date, s.end_date, s.period)
       IN IF Propagates(dr)
          THEN /\ result' = [result EXCEPT ![r] = Raised("InvalidRangeError")]
               /\ pc' = [pc EXCEPT ![r] = "done"]
               /\ UNCHANGED self
          ELSE /\ self' = [self EXCEPT ![SelfOf(r)].date_range = dr.value]
               /\ pc' = [pc EXCEPT ![r] = "dispatch"]
               /\ UNCHANGED result
    /\ UNCHANGED <<request, builds, locals>>

\* get, lines 43-55.
Dispatch(r) ==
    /\ pc[r] = "dispatch"
    /\ LET order_type == self[SelfOf(r)].order_type
       IN IF order_type \in Generators
          THEN IF order_type = "build"
               THEN /\ pc' = [pc EXCEPT ![r] = "query"]
                    /\ UNCHANGED result
               ELSE /\ result' = [result EXCEPT ![r] = StubResult]
                    /\ pc' = [pc EXCEPT ![r] = "done"]
          ELSE /\ result' = [result EXCEPT ![r] = DefaultResult]
               /\ pc' = [pc EXCEPT ![r] = "done"]
    /\ UNCHANGED <<request, self, builds, locals>>

\* generate_build_order_history, lines 63-86: the query is built (it is lazy:
\* no row is read yet) and the loop starts on empty dicts.
Query(r) ==
    /\ pc[r] = "query"
    /\ builds' = [builds EXCEPT ![r] = <<>>]
    /\ locals' = [locals EXCEPT ![r] = EmptyLocals]
    /\ pc' = [pc EXCEPT ![r] = "loop"]
    /\ UNCHANGED <<request, self, result>>

\* generate_build_order_history, lines 88-102: the query yields its next row,
\* any row of the table that passes the filter, and the loop body runs on it.
\* The query yields at most n rows.
LoopStep(r, table, n) ==
    /\ pc[r] = "loop"
    /\ Len(builds[r]) < n
    /\ \E build \in QueryRows(table, self[SelfOf(r)]) :
          /\ builds' = [builds EXCEPT ![r] = Append(builds[r], build)]
          /\ locals' = [locals EXCEPT ![r] =
                          LoopBody(locals[r], build, self[SelfOf(r)].period)]
    /\ UNCHANGED <<request, self, pc, result>>

\* generate_build_order_history, line 104, and format_response: the query has
\* no more rows.
FormatResponse(r) ==
    /\ pc[r] = "loop"
    /\ result' = [result EXCEPT ![r] =
                    format_response(locals[r].parts, locals[r].history_items,
                                    self[SelfOf(r)])]
    /\ pc' = [pc EXCEPT ![r] = "done"]
    /\ UNCHANGED <<request, self, builds, locals>>

Next ==
    \E r \in Requests :
        \/ Get(r)
        \/ ConstructDateRange(r)
        \/ Dispatch(r)
        \/ Query(r)
        \/ LoopStep(r, BuildSpace, MaxBuilds)
        \/ FormatResponse(r)

Spec == Init /\ [][Next]_vars

\* ------------------------------------------------- two concurrent requests
\* Two requests handled at once, their steps interleaved in any order. The
\* parameters and the table rows are drawn from smaller sets.
ConcRequestSpace ==
    [start_date : {0}, end_date : {0, MaxDay}, period : {"D", "Y"},
     order_type : {"build", None}, part : {NoPart},
     export : ExportFormats \cup {None}]

ConcBuildSpace ==
    {[part |-> 1, quantity |-> 1, completion_date |-> 0,
      status |-> "COMPLETE", completed |-> 1],
     [part |-> 2, quantity |-> 2, completion_date |-> MaxDay,
      status |-> "COMPLETE", completed |-> 2]}

InitConc ==
    /\ request \in [Requests -> ConcRequestSpace]
    /\ pc = [r \in Requests |-> "get"]
    /\ InitCommon

NextConc ==
    \E r \in Requests :
        \/ Get(r)
        \/ ConstructDateRange(r)
        \/ Dispatch(r)
        \/ Query(r)
        \/ LoopStep(r, ConcBuildSpace, ConcBuilds)
        \/ FormatResponse(r)

SpecConc == InitConc /\ [][NextConc]_vars

\* ---------------------------------------------------------------- helpers
\* The loop has folded every row the query has yielded: each such state is
\* the end of the loop when the query has no more rows.
Folded(r) == pc[r] \in {"loop", "done"}

\* The rows the loop has consumed so far.
Consumed(r) == builds[r]

KeyOf(b, period) == convert_date(b.completion_date, period)

RECURSIVE SumOf(_, _, _, _)
SumOf(bs, E, B, period) ==
    IF bs = <<>> THEN 0
    ELSE (IF Head(bs).part = E /\ KeyOf(Head(bs), period) = B
          THEN Head(bs).quantity ELSE 0)
         + SumOf(Tail(bs), E, B, period)

HasRecord(bs, E, B, period) ==
    \E i \in 1..Len(bs) : bs[i].part = E /\ KeyOf(bs[i], period) = B

HasEntry(history_items, E, B) ==
    DictHas(history_items, E) /\ DictHas(history_items.val[E], B)

Dates(history) == [j \in 1..Len(history) |-> history[j].date]

\* A dict of dicts as a plain mapping, the insertion orders dropped.
DictValue(history_items) ==
    [p \in DOMAIN history_items.val |-> history_items.val[p].val]

Permuted(bs, f) == [i \in 1..Len(bs) |-> bs[f[i]]]

RECURSIVE FirstAppearance(_, _)
FirstAppearance(bs, seen) ==
    IF bs = <<>> THEN <<>>
    ELSE IF Head(bs).part \in seen THEN FirstAppearance(Tail(bs), seen)
    ELSE <<Head(bs).part>> \o FirstAppearance(Tail(bs), seen \cup {Head(bs).part})

OutputEntities(res) ==
    IF res.kind = "Response"
    THEN [i \in 1..Len(res.data) |-> res.data[i].part.pk]
    ELSE [i \in 1..Len(res.rows) |-> res.rows[i][1]]

ValidRange(q) == q.start_date <= q.end_date

\* What get returns for parameters q and query rows bs when it runs alone.
SoloSelf(q) ==
    LET s == AssignSelf(q)
    IN [s EXCEPT !.date_range =
            construct_date_range(s.start_date, s.end_date, s.period).value]

SoloResult(q, bs) ==
    LET s == SoloSelf(q)
    IN IF ~ValidRange(q) THEN Raised("InvalidRangeError")
       ELSE IF s.order_type \notin Generators THEN Response(<<>>)
       ELSE IF s.order_type # "build" THEN BareList
       ELSE LET st == LoopOver(EmptyLocals, bs, s.period)
            IN format_response(st.parts, st.history_items, s)

\* ----------------------------------------------------------------- claims

\* C1. Density: every history list of a structured response has exactly one
\* entry per key of date_range, and no others, in the order of date_range.
Density ==
    \A r \in Requests :
        (pc[r] = "done" /\ result[r].kind = "Response") =>
            \A i \in 1..Len(result[r].data) :
                Dates(result[r].data[i].history) = self[SelfOf(r)].date_range

DensityWitness ==
    /\ pc[1] = "done" /\ result[1].kind = "Response"
    /\ Len(result[1].data) = 2
    /\ Len(self[1].date_range) = 3
    /\ \E j, k \in 1..3 : /\ result[1].data[1].history[j].quantity = 0
                          /\ result[1].data[1].history[k].quantity > 0

\* C2. Aggregation: at every point of the loop, and so after the last row,
\* history_items[E][B] is the sum of the quantities of the consumed rows of
\* part E whose bucket key is B, and (E, B) is absent when there is no such row.
Aggregation ==
    \A r \in Requests :
        pc[r] \in {"loop", "done"} =>
            \A E \in Parts, B \in 0..MaxDay :
                LET items == locals[r].history_items
                    period == self[SelfOf(r)].period
                IN IF HasRecord(Consumed(r), E, B, period)
                   THEN /\ HasEntry(items, E, B)
                        /\ items.val[E].val[B] = SumOf(Consumed(r), E, B, period)
                   ELSE ~HasEntry(items, E, B)

AggregationWitness ==
    /\ pc[1] = "done" /\ Len(builds[1]) = 2
    /\ builds[1][1] = builds[1][2]
    /\ builds[1][1].quantity = 2
    /\ locals[1].history_items.val[builds[1][1].part].val[
            KeyOf(builds[1][1], self[1].period)] = 4

\* C3. Round trip: for the aggregate and date_range of a request, the
\* structured response and the export list the same parts, and for each part
\* the same buckets with the same quantities; the request returns one of them.
RoundTrip ==
    \A r \in Requests :
        (Folded(r) /\ self[SelfOf(r)].order_type = "build") =>
            LET s == self[SelfOf(r)]
                st == StructuredResponse(locals[r].parts, locals[r].history_items,
                                         s.date_range)
                ex == export_data(locals[r].parts, locals[r].history_items,
                                  s.date_range, "csv")
            IN /\ st.kind = "Response" /\ ex.kind = "DownloadFile"
               /\ Len(st.data) = Len(ex.rows)
               /\ \A i \in 1..Len(st.data) :
                     /\ st.data[i].part.pk = ex.rows[i][1]
                     /\ Len(ex.rows[i]) = Len(ex.headers)
                     /\ {<<st.data[i].history[j].date, st.data[i].history[j].quantity>> :
                            j \in 1..Len(st.data[i].history)}
                        = {<<ex.headers[j], ex.rows[i][j]>> : j \in 4..Len(ex.headers)}
               /\ (pc[r] = "done" /\ result[r].kind # "InvalidRangeError") =>
                     result[r] \in {st, ex}

RoundTripWitness ==
    /\ pc[1] = "done" /\ result[1].kind = "DownloadFile"
    /\ Len(result[1].rows) = 2
    /\ Len(result[1].headers) = 6
    /\ result[1].rows[1][4] = 0 /\ result[1].rows[1][6] > 0
    /\ result[1].rows[2][5] > 0

\* C4. Permutation invariance: when the loop has ended, folding any
\* permutation of the rows of the query gives the same history_items mapping
\* as the loop gave.
PermutationInvariance ==
    \A r \in Requests :
        pc[r] = "done" =>
            \A f \in Permutations(1..Len(builds[r])) :
                DictValue(LoopOver(EmptyLocals, Permuted(builds[r], f),
                                   self[SelfOf(r)].period).history_items)
                = DictValue(locals[r].history_items)

\* Two rows of different parts, and two of one part and bucket with
\* different quantities: the swapped list builds its dicts in another order.
PermutationWitness ==
    /\ pc[1] = "done" /\ Len(builds[1]) = 2
    /\ builds[1][1].part # builds[1][2].part
    /\ LoopOver(EmptyLocals, <<builds[1][2], builds[1][1]>>,
                self[1].period).history_items # locals[1].history_items

\* C5. Entity set and order: a build request's output has one record
\* (structured) or one data row under the header row (export) per part with a
\* row in the query, in the order of the parts' first rows.
EntityOrder ==
    \A r \in Requests :
        (pc[r] = "done" /\ self[SelfOf(r)].order_type = "build"
            /\ result[r].kind # "InvalidRangeError") =>
            /\ result[r].kind =
                    (IF self[SelfOf(r)].export_format # None
                     THEN "DownloadFile" ELSE "Response")
            /\ OutputEntities(result[r]) = FirstAppearance(builds[r], {})
            /\ result[r].kind = "DownloadFile" =>
                    result[r].headers = ExportHeaders(self[SelfOf(r)].date_range)

EntityOrderWitness ==
    /\ pc[1] = "done" /\ result[1].kind = "DownloadFile"
    /\ Len(builds[1]) = 2
    /\ OutputEntities(result[1]) = <<2, 1>>

\* C6. Invalid range: a request with start_date > end_date ends in
\* InvalidRangeError at the date-range construction; it never reaches the
\* dispatch, the query or the loop.
InvalidRangeRejected ==
    \A r \in Requests :
        request[r].start_date > request[r].end_date =>
            /\ pc[r] \in {"get", "date_range", "done"}
            /\ builds[r] = <<>> /\ locals[r] = EmptyLocals
            /\ pc[r] = "done" => result[r].kind = "InvalidRangeError"

InvalidRangeWitness ==
    /\ pc[1] = "done" /\ request[1].start_date > request[1].end_date
    /\ request[1].order_type = "build"
    /\ result[1].kind = "InvalidRangeError"

\* C7. Lenient default: a request with a valid range whose order_type is no
\* key of the dispatch table returns the empty structured response.
LenientDefault ==
    \A r \in Requests :
        (pc[r] = "done" /\ ValidRange(request[r])
            /\ request[r].order_type \notin Generators) =>
            result[r] = Response(<<>>)

LenientDefaultWitness ==
    /\ pc[1] = "done" /\ ValidRange(request[1])
    /\ request[1].order_type = None /\ request[1].export = "csv"
    /\ result[1] = Response(<<>>)

\* C8. Request isolation: with two requests interleaved, the attributes a
\* request reads are the ones it assigned, its rows are rows of its own query,
\* its dicts are the fold of its own rows, and it returns what it returns
\* when it runs alone.
Isolation ==
    \A r \in Requests :
        /\ pc[r] = "date_range" => self[SelfOf(r)] = AssignSelf(request[r])
        /\ pc[r] \in {"dispatch", "query", "loop"} =>
                self[SelfOf(r)] = SoloSelf(request[r])
        /\ \A i \in 1..Len(builds[r]) :
                InQuery(builds[r][i], AssignSelf(request[r]))
        /\ pc[r] \in {"loop", "done"} =>
                locals[r] = LoopOver(EmptyLocals, Consumed(r),
                                     AssignSelf(request[r]).period)
        /\ pc[r] = "done" => result[r] = SoloResult(request[r], builds[r])

IsolationWitness ==
    /\ pc[1] = "loop" /\ Len(builds[1]) = 1
    /\ pc[2] = "done" /\ result[2].kind = "DownloadFile"
    /\ request[1].export = None
    /\ request[1].period # request[2].period
    /\ request[1].end_date # request[2].end_date
    /\ builds[1] # builds[2]

\* C9. Descriptor coverage: parts and history_items have the same keys at
\* every point of the loop, and no part lookup of format_response or
\* export_data fails.
DescriptorCoverage ==
    \A r \in Requests :
        /\ DOMAIN locals[r].parts.val = DOMAIN locals[r].history_items.val
        /\ \A p \in DOMAIN locals[r].parts.val : locals[r].parts.val[p] = Part(p)
        /\ result[r].kind # "KeyError"

DescriptorCoverageWitness ==
    /\ pc[1] = "loop" /\ Len(builds[1]) = 2
    /\ DOMAIN locals[1].parts.val = {1, 2}
    /\ DOMAIN locals[1].history_items.val = {1, 2}

\* C10. Uniform result kind: a request with a valid range returns a response
\* object, and 'purchase', 'sales' and 'return' return the empty structured
\* response of an unrecognised order type.
UniformResultKind ==
    \A r \in Requests :
        (pc[r] = "done" /\ ValidRange(request[r])) =>
            /\ result[r].kind \in {"Response", "DownloadFile"}
            /\ request[r].order_type \in {"purchase", "sales", "return"} =>
                    result[r] = Response(<<>>)

====
